---- MODULE Spec2Model ----
(***************************************************************************)
(* glimpse.py: a command-line client that sends an image and a prompt to   *)
(* the OpenRouter chat-completion endpoint, and lists the image-capable    *)
(* models of the OpenRouter catalog through a cache file in the temp dir.  *)
(*                                                                         *)
(* Part I models the list-models mode (the cache file, the clock, the      *)
(* catalog endpoint and up to two invocations of the tool); Part II        *)
(* models the analyze mode (arguments, config file, image file, inference  *)
(* endpoint).                                                              *)
(***************************************************************************)
EXTENDS Integers, Sequences, FiniteSets, TLC

VARIABLES now, ticks, cache, inv, runs, an

vars == <<now, ticks, cache, inv, runs, an>>

(***************************************************************************)
(* Bounds of the model.                                                    *)
(***************************************************************************)
\* how many times the clock advances in one behaviour
MaxTicks == 2
\* how many invocations of the tool are started in one behaviour
MaxRuns == 2
\* the longest raw catalog drawn when the filter is checked
MaxCatalog == 3

(***************************************************************************)
(* Program constants.                                                      *)
(***************************************************************************)
\* is_cache_valid(cache_file_path, max_age_hours=6)
max_age_hours == 6
\* max_age_seconds = max_age_hours * 3600
SecondsPerHour == 3600

\* the invocations of the tool that may run at the same time
Procs == {1, 2}

\* the steps by which the clock (time.time(), in seconds) advances
Deltas == {1, 21599}

(***************************************************************************)
(* JSON values and JSON text.                                              *)
(*                                                                         *)
(* A model descriptor of the catalog carries an id and, optionally, an     *)
(* architecture with its input_modalities.  A JSON document is either the  *)
(* object {"data": [...]} or a bare array [...] of descriptors; None is    *)
(* Python's None.  The text of a document is a sequence of tokens, so that *)
(* a file can hold a prefix or a mix of documents.                         *)
(***************************************************************************)
Entry(i, a, m) == [id |-> i, arch |-> a, mods |-> m]

NoEntry == Entry(0, FALSE, << >>)

None == [form |-> "None", models |-> << >>]

Arr(ms) == [form |-> "arr", models |-> ms]

Obj(ms) == [form |-> "obj", models |-> ms]

Tok(s) == [t |-> s, e |-> NoEntry]

EntryTok(x) == [t |-> "entry", e |-> x]

\* a hole left in a file by a write past its end (NUL bytes)
Hole == Tok("nul")

EntryToks(ms) == [i \in 1..Len(ms) |-> EntryTok(ms[i])]

\* faulty variant of json_dump: only the list of descriptors is written
\* (json.dump(models_data['data'], f))
json_dump_list(d) == <<Tok("[")>> \o EntryToks(d.models) \o <<Tok("]")>>

\* json.dump(models_data, f): the text json.dump produces for a document
json_dump(d) ==
    IF d.form = "obj"
    THEN <<Tok("{"), Tok("data"), Tok("[")>> \o EntryToks(d.models) \o <<Tok("]"), Tok("}")>>
    ELSE <<Tok("[")>> \o EntryToks(d.models) \o <<Tok("]")>>

\* the array a token sequence denotes: [ entry* ] and nothing else
ParseArray(toks) ==
    IF /\ Len(toks) >= 2
       /\ toks[1].t = "["
       /\ toks[Len(toks)].t = "]"
       /\ \A i \in 2..(Len(toks) - 1) : toks[i].t = "entry"
    THEN [ok |-> TRUE, models |-> [i \in 1..(Len(toks) - 2) |-> toks[i + 1].e]]
    ELSE [ok |-> FALSE, models |-> << >>]

\* json.load(f) inside try/except (json.JSONDecodeError, IOError): the whole
\* text must be one document; anything else is a JSONDecodeError, hence None
json_load(toks) ==
    IF Len(toks) >= 1 /\ toks[1].t = "{"
    THEN IF /\ Len(toks) >= 5
            /\ toks[2].t = "data"
            /\ toks[Len(toks)].t = "}"
            /\ ParseArray(SubSeq(toks, 3, Len(toks) - 1)).ok
         THEN Obj(ParseArray(SubSeq(toks, 3, Len(toks) - 1)).models)
         ELSE None
    ELSE IF ParseArray(toks).ok THEN Arr(ParseArray(toks).models) ELSE None

(***************************************************************************)
(* The catalogs the endpoint serves.                                       *)
(***************************************************************************)
ModalityLists == { << >>, <<"text">>, <<"image">>, <<"text", "image">> }

\* the architectures a descriptor may carry: none, or one with modalities
Architectures ==
    {[arch |-> FALSE, mods |-> << >>]} \cup
    {[arch |-> TRUE, mods |-> m] : m \in ModalityLists \ {<< >>}}

\* the catalogs the endpoint serves while the cache is exercised
RemoteBodies ==
    { Arr(<<Entry(1, TRUE, <<"image">>), Entry(2, TRUE, <<"text">>)>>),
      Arr(<<Entry(3, TRUE, <<"text">>), Entry(4, TRUE, <<"text", "image">>)>>),
      Obj(<<Entry(5, TRUE, <<"text", "image">>)>>),
      Arr(<< >>) }

\* every raw catalog of up to MaxCatalog descriptors, in both response forms;
\* the descriptor at position i has id i
RawCatalogs ==
    UNION { { [form |-> f, models |-> [i \in 1..n |-> Entry(i, k[i].arch, k[i].mods)]] :
                k \in [1..n -> Architectures], f \in {"arr", "obj"} } :
            n \in 0..MaxCatalog }


(***************************************************************************)
(* The cache file, os.path.join(tempfile.gettempdir(),                     *)
(* 'glimpse_models_cache.json'): whether it exists, its text and its       *)
(* modification time.                                                      *)
(***************************************************************************)
NoFile == [exists |-> FALSE, content |-> << >>, mtime |-> 0]

Holes(n) == [i \in 1..n |-> Hole]

\* write(2) of chunk at byte offset off of a file holding content: the file is
\* extended with a hole when off lies past its end, and overwritten in place
WriteAt(content, off, chunk) ==
    LET padded == IF Len(content) < off
                  THEN content \o Holes(off - Len(content))
                  ELSE content
    IN  SubSeq(padded, 1, off) \o chunk \o
        SubSeq(padded, off + Len(chunk) + 1, Len(padded))

\* open(cache_file_path, 'w') at time t: the file is created or truncated
OpenForWrite(t) == [exists |-> TRUE, content |-> << >>, mtime |-> t]

\* faulty variant of is_cache_valid: a file of exactly max_age_seconds is
\* still taken as valid (file_age <= max_age_seconds)
is_cache_valid_inclusive(c, t) ==
    /\ c.exists
    /\ (t - c.mtime) <= max_age_hours * SecondsPerHour

\* is_cache_valid: the file exists and file_age < max_age_seconds
is_cache_valid(c, t) ==
    /\ c.exists
    /\ (t - c.mtime) < max_age_hours * SecondsPerHour

(***************************************************************************)
(* list_models: the filter and the printed lines.                          *)
(***************************************************************************)
\* models_data['data'] if 'data' in models_data else models_data
ModelsOf(d) == d.models

\* architecture.get('input_modalities', []) of model.get('architecture', {})
Modalities(x) == IF x.arch THEN x.mods ELSE << >>

\* faulty variant of SupportsImage: modalities == ['image']
SupportsImage_only(x) == Modalities(x) = <<"image">>

\* 'image' in modalities
SupportsImage(x) == \E j \in 1..Len(Modalities(x)) : Modalities(x)[j] = "image"

\* for model in models: if 'image' in modalities: image_models.append(model)
RECURSIVE FilterLoop(_, _, _)
FilterLoop(models, i, acc) ==
    IF i > Len(models)
    THEN acc
    ELSE FilterLoop(models, i + 1,
                    IF SupportsImage(models[i]) THEN Append(acc, models[i]) ELSE acc)

ImageModels(models) == FilterLoop(models, 1, << >>)

Line(k, n) == [k |-> k, n |-> n]

\* the header line: "... with Image Support ({len(image_models)} total):"
Header(ims) == Line("header", Len(ims))

\* compact mode: one model id per line
CompactLines(ims) == [i \in 1..Len(ims) |-> Line("id", ims[i].id)]

\* detailed mode: a rule, then per model its ID line and a closing rule (the
\* name, context, pricing and description lines are not modelled)
RECURSIVE DetailLines(_, _)
DetailLines(ims, i) ==
    IF i > Len(ims)
    THEN << >>
    ELSE <<Line("id", ims[i].id), Line("rule", 0)>> \o DetailLines(ims, i + 1)

Printed(ims, detailed) ==
    IF detailed
    THEN <<Header(ims), Line("rule", 0)>> \o DetailLines(ims, 1)
    ELSE <<Header(ims)>> \o CompactLines(ims)

(***************************************************************************)
(* One invocation of the tool in list-models mode.                         *)
(***************************************************************************)
NoCheck == [exists |-> FALSE, age |-> 0, content |-> << >>, valid |-> FALSE]

IdleInv ==
    [pc |-> "idle", detailed |-> FALSE, phase |-> "fresh", rd |-> << >>,
     woff |-> 0, data |-> None, got |-> None, src |-> "none", netReq |-> 0, netok |-> FALSE,
     netfail |-> FALSE, saved |-> "no", chk |-> NoCheck, cache0 |-> NoFile,
     image_models |-> << >>, out |-> << >>, err |-> << >>, exit |-> -1]

Active(p) == inv[p].pc \notin {"idle", "done"}

\* main: args.list_models / args.list_models_with_details, then list_models
\* calls fetch_models_data
Start(p, modes) ==
    /\ ~Active(p)
    /\ runs < MaxRuns
    /\ runs' = runs + 1
    /\ \E d \in modes :
         inv' = [inv EXCEPT ![p] = [IdleInv EXCEPT !.pc = "valid", !.detailed = d,
                                                  !.cache0 = cache]]
    /\ UNCHANGED <<now, ticks, cache, an>>

\* fetch_models_data: if is_cache_valid(cache_file_path)
IsCacheValid(p) ==
    /\ inv[p].pc = "valid"
    /\ inv' = [inv EXCEPT ![p].chk = [exists |-> cache.exists,
                                      age |-> IF cache.exists THEN now - cache.mtime ELSE 0,
                                      content |-> cache.content,
                                      valid |-> is_cache_valid(cache, now)],
                          ![p].pc = IF is_cache_valid(cache, now) THEN "load_open" ELSE "get"]
    /\ UNCHANGED <<now, ticks, cache, runs, an>>

\* faulty variant of AfterLoad: after a failed fetch the exception is raised
\* again without looking at what the cache file held
AfterLoad_reraise(r, v) ==
    IF r.phase = "fresh"
    THEN IF v # None
         THEN [r EXCEPT !.data = v, !.src = "cache", !.pc = "list"]
         ELSE [r EXCEPT !.pc = "get"]
    ELSE [r EXCEPT !.src = "raised", !.pc = "list"]

\* what fetch_models_data does with the value load_models_from_cache returned
AfterLoad(r, v) ==
    IF r.phase = "fresh"
    THEN IF v # None
         THEN [r EXCEPT !.data = v, !.src = "cache", !.pc = "list"]
         ELSE [r EXCEPT !.pc = "get"]
    ELSE IF v # None
         THEN [r EXCEPT !.data = v, !.src = "stale", !.pc = "list",
                        !.err = Append(r.err, "Warning: API request failed, using cached data")]
         ELSE [r EXCEPT !.src = "raised", !.pc = "list"]

\* load_models_from_cache: open(cache_file_path, 'r'); IOError gives None
LoadOpen(p) ==
    /\ inv[p].pc = "load_open"
    /\ inv' = [inv EXCEPT ![p] = IF cache.exists
                                 THEN [inv[p] EXCEPT !.pc = "load_read", !.rd = << >>]
                                 ELSE AfterLoad(inv[p], None)]
    /\ UNCHANGED <<now, ticks, cache, runs, an>>

\* load_models_from_cache: json.load(f) reads the file to its end (a read that
\* returns nothing is the end of the file), then parses what it has read
LoadRead(p) ==
    /\ inv[p].pc = "load_read"
    /\ LET have == Len(inv[p].rd)
           more == IF have < Len(cache.content)
                   THEN SubSeq(cache.content, have + 1, Len(cache.content))
                   ELSE << >>
       IN  inv' = [inv EXCEPT ![p] = IF more = << >>
                                     THEN AfterLoad(inv[p], json_load(inv[p].rd))
                                     ELSE [inv[p] EXCEPT !.rd = inv[p].rd \o more]]
    /\ UNCHANGED <<now, ticks, cache, runs, an>>

\* requests.get(...); response.raise_for_status(); response.json(): the
\* endpoint answers with one of the catalogs in bodies
GetOk(p, bodies) ==
    /\ inv[p].pc = "get"
    /\ \E b \in bodies :
         inv' = [inv EXCEPT ![p] = [inv[p] EXCEPT !.netReq = @ + 1, !.netok = TRUE,
                                                  !.data = b, !.got = b, !.src = "network",
                                                  !.pc = "save_open"]]
    /\ UNCHANGED <<now, ticks, cache, runs, an>>

\* requests.get(...) or raise_for_status() raises a RequestException: the
\* except branch loads the cache file whatever its age
GetFail(p) ==
    /\ inv[p].pc = "get"
    /\ inv' = [inv EXCEPT ![p] = [inv[p] EXCEPT !.netReq = @ + 1, !.netfail = TRUE,
                                                !.phase = "fallback", !.pc = "load_open"]]
    /\ UNCHANGED <<now, ticks, cache, runs, an>>

\* save_models_to_cache: open(cache_file_path, 'w') truncates the file, or
\* raises IOError, which is swallowed
SaveOpen(p) ==
    /\ inv[p].pc = "save_open"
    /\ \E fails \in BOOLEAN :
         IF fails
         THEN /\ inv' = [inv EXCEPT ![p].saved = "failed", ![p].pc = "list"]
              /\ UNCHANGED cache
         ELSE /\ cache' = OpenForWrite(now)
              /\ inv' = [inv EXCEPT ![p].woff = 0, ![p].pc = "save_write"]
    /\ UNCHANGED <<now, ticks, runs, an>>

\* save_models_to_cache: json.dump writes the text through the file's buffer,
\* in one or several write(2) calls at the writer's own file offset
SaveWrite(p) ==
    /\ inv[p].pc = "save_write"
    /\ LET text == json_dump(inv[p].data)
       IN  /\ inv[p].woff < Len(text)
           /\ \E k \in 1..(Len(text) - inv[p].woff) :
                /\ cache' = [exists |-> TRUE,
                             content |-> WriteAt(cache.content, inv[p].woff,
                                                 SubSeq(text, inv[p].woff + 1, inv[p].woff + k)),
                             mtime |-> now]
                /\ inv' = [inv EXCEPT ![p].woff = @ + k]
    /\ UNCHANGED <<now, ticks, runs, an>>

\* save_models_to_cache: a write raises IOError (swallowed by except IOError);
\* the file keeps what was written before
SaveFail(p) ==
    /\ inv[p].pc = "save_write"
    /\ inv[p].woff < Len(json_dump(inv[p].data))
    /\ inv' = [inv EXCEPT ![p].saved = "failed", ![p].pc = "list"]
    /\ UNCHANGED <<now, ticks, cache, runs, an>>

\* save_models_to_cache: the with block closes the file after the last write
SaveClose(p) ==
    /\ inv[p].pc = "save_write"
    /\ inv[p].woff = Len(json_dump(inv[p].data))
    /\ inv' = [inv EXCEPT ![p].saved = "ok", ![p].pc = "list"]
    /\ UNCHANGED <<now, ticks, cache, runs, an>>

\* list_models after fetch_models_data: filter, print, and exit 0 in main; an
\* exception raised by fetch_models_data is printed and the exit status is 1
ListModels(p) ==
    /\ inv[p].pc = "list"
    /\ inv' = [inv EXCEPT ![p] =
                 IF inv[p].src = "raised"
                 THEN [inv[p] EXCEPT !.err = Append(@, "Error fetching models"),
                                     !.exit = 1, !.pc = "done"]
                 ELSE LET ims == ImageModels(ModelsOf(inv[p].data))
                      IN  [inv[p] EXCEPT !.image_models = ims,
                                         !.out = Printed(ims, inv[p].detailed),
                                         !.exit = 0, !.pc = "done"]]
    /\ UNCHANGED <<now, ticks, cache, runs, an>>

\* time.time() advances
Tick ==
    /\ ticks < MaxTicks
    /\ \E d \in Deltas : now' = now + d
    /\ ticks' = ticks + 1
    /\ UNCHANGED <<cache, inv, runs, an>>

Step(p, bodies) ==
    \/ IsCacheValid(p)
    \/ LoadOpen(p)
    \/ LoadRead(p)
    \/ GetOk(p, bodies)
    \/ GetFail(p)
    \/ SaveOpen(p)
    \/ SaveWrite(p)
    \/ SaveFail(p)
    \/ SaveClose(p)
    \/ ListModels(p)

NoAnalyze == [pc |-> "off"]

\* no invocation runs yet and the temp dir holds one of the files in caches
InitList(caches) ==
    /\ now = 0
    /\ ticks = 0
    /\ cache \in caches
    /\ inv = [p \in Procs |-> IdleInv]
    /\ runs = 0
    /\ an = NoAnalyze

\* the temp dir holds no cache file yet
Init == InitList({NoFile})

\* invocations of list-models one after another
Next ==
    \/ Start(1, BOOLEAN)
    \/ Step(1, RemoteBodies)
    \/ Tick

Spec == Init /\ [][Next]_vars

\* the catalogs the endpoint serves while two invocations race
ConcBodies ==
    { Arr(<<Entry(1, TRUE, <<"image">>), Entry(2, TRUE, <<"text">>)>>),
      Arr(<<Entry(3, TRUE, <<"text">>), Entry(4, TRUE, <<"text", "image">>)>>) }

\* a cache file an earlier invocation left behind at time 0: the first n
\* tokens of the text of d (all of it when the write completed, less when a
\* write raised IOError)
Left(d, n) == [exists |-> TRUE, content |-> SubSeq(json_dump(d), 1, n), mtime |-> 0]

LeftBehind(bodies) ==
    {NoFile} \cup UNION { {Left(d, n) : n \in 0..Len(json_dump(d))} : d \in bodies }

\* two invocations of list-models racing on the cache file, each started
\* once, over a cache file that earlier invocations left behind
InitConc == InitList(LeftBehind(ConcBodies))

NextConc ==
    \/ \E p \in Procs : inv[p].pc = "idle" /\ Start(p, {FALSE})
    \/ \E p \in Procs : Step(p, ConcBodies)

SpecConc == InitConc /\ [][NextConc]_vars

\* one invocation of list-models over raw catalogs of every shape, fetched
\* or left in the cache file by an earlier invocation
InitFilter == InitList({NoFile} \cup {Left(d, Len(json_dump(d))) : d \in RawCatalogs})

NextFilter ==
    \/ inv[1].pc = "idle" /\ Start(1, BOOLEAN)
    \/ Step(1, RawCatalogs)

SpecFilter == InitFilter /\ [][NextFilter]_vars


(***************************************************************************)
(* Properties of the list-models mode.                                     *)
(***************************************************************************)
\* fetch_models_data has returned a catalog or raised
Fetched(p) == inv[p].pc \in {"list", "done"}

SixHours == 6 * 3600

C2_StaleFallback ==
    \A p \in Procs :
      Fetched(p) =>
        /\ (inv[p].netfail /\ cache.exists /\ json_load(cache.content) # None)
             => /\ inv[p].data = json_load(cache.content)
                /\ inv[p].src = "stale"
        /\ inv[p].src = "raised"
             => /\ inv[p].netfail
                /\ ~cache.exists \/ json_load(cache.content) = None

\* a cache file of 6 hours or more was returned after the fetch failed
C2_Witness ==
    \E p \in Procs :
      /\ inv[p].pc = "done"
      /\ inv[p].netfail
      /\ inv[p].chk.exists
      /\ inv[p].chk.age >= SixHours
      /\ inv[p].src = "stale"
      /\ inv[p].data \in RemoteBodies
      /\ inv[p].exit = 0

\* the positions of the raw catalog whose input_modalities contain "image"
ImagePositions(models) ==
    {i \in 1..Len(models) :
       models[i].arch /\ "image" \in {models[i].mods[j] : j \in 1..Len(models[i].mods)}}

\* C8: the list of image-capable models holds exactly the entries of the raw
\* catalog whose architecture.input_modalities contains "image", in their
\* original order, and the header prints the length of that list.
C8_FilterKeepsImageModelsInOrder ==
    \A p \in Procs :
      (inv[p].pc = "done" /\ inv[p].src # "raised") =>
        LET models == inv[p].data.models
            pos == ImagePositions(models)
        IN  /\ Len(inv[p].image_models) = Cardinality(pos)
            /\ \A i \in pos :
                 inv[p].image_models[Cardinality({j \in pos : j <= i})] = models[i]
            /\ inv[p].out[1] = [k |-> "header", n |-> Cardinality(pos)]
            /\ Cardinality({l \in 1..Len(inv[p].out) : inv[p].out[l].k = "id"})
                 = Cardinality(pos)

\* a catalog of a text-only, an image-only and a text-and-image model was
\* listed as the second and the third
C8_Witness ==
    \E p \in Procs :
      /\ inv[p].pc = "done"
      /\ Len(inv[p].data.models) = 3
      /\ inv[p].data.models[1].mods = <<"text">>
      /\ inv[p].data.models[2].mods = <<"image">>
      /\ inv[p].data.models[3].mods = <<"text", "image">>
      /\ Len(inv[p].image_models) = 2
      /\ inv[p].image_models[1].id = 2
      /\ inv[p].image_models[2].id = 3
      /\ inv[p].out[1].n = 2

\* C9: the cache file is written only as part of a successful network fetch,
\* and a completed write leaves the fetched payload in it; an invocation
\* served from the fresh cache, or whose fetch failed, leaves the content and
\* the modification time of the file as they were; a failed write changes
\* neither the returned catalog nor the exit status.
C9_CacheWrittenOnlyOnFetch ==
    \A p \in Procs :
      /\ (inv[p].pc # "idle" /\ cache # inv[p].cache0) => inv[p].netok
      /\ (Fetched(p) /\ inv[p].saved = "ok")
           => /\ cache.exists
              /\ json_load(cache.content) = inv[p].got
              /\ cache.mtime <= now
      /\ (Fetched(p) /\ (inv[p].src \in {"cache", "stale", "raised"}))
           => cache = inv[p].cache0
      /\ (inv[p].pc = "done" /\ inv[p].netok)
           => /\ inv[p].data = inv[p].got
              /\ inv[p].exit = 0
              /\ inv[p].err = << >>

\* a write that failed after the file was truncated: the fetched catalog is
\* still listed with exit status 0
C9_Witness ==
    \E p \in Procs :
      /\ inv[p].pc = "done"
      /\ inv[p].saved = "failed"
      /\ cache # inv[p].cache0
      /\ json_load(cache.content) = None
      /\ inv[p].data = inv[p].got
      /\ inv[p].exit = 0

\* C10: with two invocations racing on the cache file, a reader that finds
\* the file unparseable goes on to the network fetch, and no invocation ever
\* returns a torn payload as the catalog.
C10_NoTornCatalog ==
    \A p \in Procs :
      Fetched(p) =>
        /\ (inv[p].chk.valid /\ inv[p].src # "cache") => inv[p].netReq = 1
        /\ inv[p].src \in {"cache", "stale"} => inv[p].data \in ConcBodies


(***************************************************************************)
(* Part II: the analyze mode.                                              *)
(*                                                                         *)
(* Optional values (argparse's None, a key missing from the config file)   *)
(* are records [some, v].  A path is the sequence of its characters.       *)
(* Floats are counted in tenths: 0.4 is 4.                                 *)
(***************************************************************************)
Some(x) == [some |-> TRUE, v |-> x]

NoString == [some |-> FALSE, v |-> ""]

NoFloat == [some |-> FALSE, v |-> 0]

NoPath == [some |-> FALSE, v |-> << >>]

\* default_model = "google/gemini-2.5-flash"
default_model == "google/gemini-2.5-flash"

\* default_temperature = 0.4, in tenths
default_temperature == 4

\* the default of --prompt
default_prompt == "Describe what you see in the image"

\* str.lower() on the characters the paths are made of
LowerChar(c) ==
    CASE c = "P" -> "p"
      [] c = "N" -> "n"
      [] c = "G" -> "g"
      [] c = "J" -> "j"
      [] c = "E" -> "e"
      [] OTHER -> c

\* faulty variant of Lower: the suffix is compared as it is written
Lower_missing(w) == w

Lower(w) == [i \in 1..Len(w) |-> LowerChar(w[i])]

\* the position of the last "." of name, 0 when there is none (str.rfind)
LastDot(name) ==
    LET dots == {i \in 1..Len(name) : name[i] = "."}
    IN  IF dots = {} THEN 0 ELSE CHOOSE i \in dots : \A j \in dots : j <= i

\* pathlib's Path(...).suffix: the name from its last dot on, unless the dot
\* is the first or the last character of the name
Suffix(name) ==
    IF LastDot(name) > 1 /\ LastDot(name) < Len(name)
    THEN SubSeq(name, LastDot(name), Len(name))
    ELSE << >>

\* ['.jpg', '.jpeg', '.png']
AllowedSuffixes ==
    { <<".", "j", "p", "g">>, <<".", "j", "p", "e", "g">>, <<".", "p", "n", "g">> }

\* image_path.suffix.lower() in ['.jpg', '.jpeg', '.png']
SupportedExtension(path) == Lower(Suffix(path)) \in AllowedSuffixes

\* float(s) of a temperature given in the config file; ValueError otherwise
float(s) ==
    CASE s = "0.9" -> [ok |-> TRUE, v |-> 9]
      [] s = "0" -> [ok |-> TRUE, v |-> 0]
      [] s = "1e0" -> [ok |-> TRUE, v |-> 10]
      [] OTHER -> [ok |-> FALSE, v |-> 0]

\* bool(x) of an Optional[str]: None and "" are falsy
Truthy(x) == x.some /\ x.v # ""

\* model = args.model if args.model else config_model
ResolveModel(cli, config_model) == IF Truthy(cli) THEN cli.v ELSE config_model

\* temperature = args.temperature if args.temperature is not None
\*               else config_temperature
ResolveTemperature(cli, config_temperature) ==
    IF cli.some THEN cli.v ELSE config_temperature

\* a line on the error stream: what it says, and the status code and the
\* response body it carries, if any
ErrLine(tag) == [tag |-> tag, status |-> 0, body |-> ""]

\* faulty variant of load_config: a missing api_key is read as the empty
\* string instead of ending the process
load_config_lenient(cfg) ==
    [ok |-> ~cfg.malformed,
     api_key |-> IF cfg.section /\ cfg.api_key.some THEN cfg.api_key.v ELSE "",
     model |-> IF cfg.section /\ cfg.model.some THEN cfg.model.v ELSE default_model,
     temperature |-> IF cfg.section /\ cfg.temperature.some /\ float(cfg.temperature.v).ok
                     THEN float(cfg.temperature.v).v
                     ELSE default_temperature,
     err |-> << >>]

\* load_config: (api_key, model, temperature), or sys.exit(1) with the lines
\* printed to the error stream
load_config(cfg) ==
    IF cfg.malformed
    THEN [ok |-> FALSE, api_key |-> "", model |-> "", temperature |-> 0,
          err |-> <<ErrLine("Error reading config file"),
                    ErrLine("Please ensure the file has the correct format")>>]
    ELSE IF ~(cfg.section /\ cfg.api_key.some)
    THEN [ok |-> FALSE, api_key |-> "", model |-> "", temperature |-> 0,
          err |-> <<ErrLine("Error: Missing 'api_key'"),
                    ErrLine("Please add your OpenRouter API key")>>]
    ELSE [ok |-> TRUE,
          api_key |-> cfg.api_key.v,
          model |-> IF cfg.section /\ cfg.model.some THEN cfg.model.v ELSE default_model,
          temperature |-> IF cfg.section /\ cfg.temperature.some
                          THEN IF float(cfg.temperature.v).ok
                               THEN float(cfg.temperature.v).v
                               ELSE default_temperature
                          ELSE default_temperature,
          err |-> (IF cfg.section /\ cfg.model.some
                   THEN << >>
                   ELSE <<ErrLine("Notice: Using default model")>>) \o
                  (IF cfg.section /\ cfg.temperature.some /\ ~float(cfg.temperature.v).ok
                   THEN <<ErrLine("Warning: Invalid temperature value in config")>>
                   ELSE << >>)]

\* base64.b64encode(image_file.read()).decode("utf-8")
b64encode(bytes) == [b64 |-> bytes]

\* faulty variant of BuildPayload: the image part comes before the text part
BuildPayload_imageFirst(model, prompt, base64_image, temperature) ==
    LET messages ==
          << [role |-> "user",
              content |-> << [type |-> "image_url", text |-> "",
                              url |-> [scheme |-> "data:image/jpeg;base64,",
                                       data |-> base64_image]],
                             [type |-> "text", text |-> prompt, url |-> ""] >>] >>
    IN  IF temperature.some
        THEN [model |-> model, messages |-> messages, temperature |-> temperature.v]
        ELSE [model |-> model, messages |-> messages]

\* analyze_image: the payload of the request
BuildPayload(model, prompt, base64_image, temperature) ==
    LET messages ==
          << [role |-> "user",
              content |-> << [type |-> "text", text |-> prompt, url |-> ""],
                             [type |-> "image_url", text |-> "",
                              url |-> [scheme |-> "data:image/jpeg;base64,",
                                       data |-> base64_image]] >>] >>
    IN  IF temperature.some
        THEN [model |-> model, messages |-> messages, temperature |-> temperature.v]
        ELSE [model |-> model, messages |-> messages]

\* response.raise_for_status(): HTTPError for a 4xx or 5xx status
RaisesForStatus(status) == 400 <= status /\ status < 600

\* bool(response) of requests.Response is response.ok: raise_for_status()
\* does not raise
ResponseTruthy(status) == ~RaisesForStatus(status)

\* hasattr(e, 'response') and e.response, for the HTTPError of a response
\* with this status
HasResponse(status) == ResponseTruthy(status)

\* the lines analyze_image prints for the HTTPError of a response
HTTPErrorLines(status, body) ==
    <<[tag |-> "Error calling OpenRouter API", status |-> status, body |-> ""]>> \o
    (IF HasResponse(status)
     THEN <<[tag |-> "Response status code", status |-> status, body |-> ""],
            [tag |-> "Response body", status |-> 0, body |-> body]>>
     ELSE << >>)

\* response.json() and result["choices"][0]["message"]["content"]
Content(body) ==
    CASE body = "{choices:[{message:{content:cat}}]}" -> [kind |-> "ok", text |-> "cat"]
      [] body = "{error:denied}" -> [kind |-> "KeyError", text |-> ""]
      [] OTHER -> [kind |-> "JSONDecodeError", text |-> ""]

(***************************************************************************)
(* The inputs of one invocation in analyze mode.                           *)
(***************************************************************************)
ImagePaths ==
    { NoPath,
      Some(<< >>),
      Some(<<"p", ".", "p", "n", "g">>),
      Some(<<"p", ".", "P", "N", "G">>),
      Some(<<"a", ".", "j", "p", "g">>),
      Some(<<"a", ".", "J", "p", "E", "g">>),
      Some(<<"i", ".", "g", "i", "f">>),
      Some(<<"p", "n", "g">>),
      Some(<<"a", ".", "p", "n", "g", ".", "g", "i", "f">>) }

CliModels == { NoString, Some(""), Some("openai/o4-mini") }

CliTemperatures == { NoFloat, Some(0), Some(7) }

Prompts == { default_prompt, "What is this?" }

\* the config files: unparseable, without an [openrouter] section, or with
\* one that holds any of the three keys
Configs ==
    { [malformed |-> TRUE, section |-> FALSE, api_key |-> NoString,
       model |-> NoString, temperature |-> NoString],
      [malformed |-> FALSE, section |-> FALSE, api_key |-> NoString,
       model |-> NoString, temperature |-> NoString] } \cup
    { [malformed |-> FALSE, section |-> TRUE, api_key |-> k, model |-> m,
       temperature |-> t] :
        k \in {NoString, Some("sk-X")},
        m \in {NoString, Some(""), Some("mistralai/mistral-medium-3")},
        t \in {NoString, Some("0.9"), Some("0"), Some("abc")} }

Statuses == {200, 304, 401, 500}

Bodies == {"{choices:[{message:{content:cat}}]}", "{error:denied}", "<html>"}

NoResponse == [kind |-> "none", status |-> 0, body |-> ""]

NoPayload == [model |-> "", messages |-> << >>]

NoConfig == [ok |-> FALSE, api_key |-> "", model |-> "", temperature |-> 0, err |-> << >>]

Analyze(path, prompt, m, t, cfgExists, cfg, imgExists, imgReadable) ==
    [pc |-> "args", image_path |-> path, prompt |-> prompt, cli_model |-> m,
     cli_temperature |-> t, cfgExists |-> cfgExists, cfg |-> cfg,
     imgExists |-> imgExists, imgReadable |-> imgReadable, passed |-> FALSE,
     lc |-> NoConfig, model |-> "", temperature |-> NoFloat, payload |-> NoPayload,
     sent |-> FALSE, resp |-> NoResponse, netReq |-> 0,
     out |-> << >>, err |-> << >>, exit |-> -1]

\* sys.exit(1) after printing lines to the error stream
Die(a, lines) == [a EXCEPT !.err = a.err \o lines, !.exit = 1, !.pc = "done"]

others == <<now, ticks, cache, inv, runs>>

\* main: if not args.image_path
CheckImagePathArg ==
    /\ an.pc = "args"
    /\ an' = IF ~(an.image_path.some /\ an.image_path.v # << >>)
             THEN Die(an, <<ErrLine("Error: Image path is required for analysis."),
                            ErrLine("Use --help for usage information")>>)
             ELSE [an EXCEPT !.pc = "cfg"]
    /\ UNCHANGED others

\* main: if not os.path.exists(config_path)
CheckConfigExists ==
    /\ an.pc = "cfg"
    /\ an' = IF ~an.cfgExists
             THEN Die(an, <<ErrLine("Error: Config file not found"),
                            ErrLine("Please create a config file")>>)
             ELSE [an EXCEPT !.pc = "img"]
    /\ UNCHANGED others

\* main: if not image_path.exists()
CheckImageExists ==
    /\ an.pc = "img"
    /\ an' = IF ~an.imgExists
             THEN Die(an, <<ErrLine("Error: Image file not found")>>)
             ELSE [an EXCEPT !.pc = "ext"]
    /\ UNCHANGED others

\* main: if image_path.suffix.lower() not in ['.jpg', '.jpeg', '.png']
CheckExtension ==
    /\ an.pc = "ext"
    /\ an' = IF ~SupportedExtension(an.image_path.v)
             THEN Die(an, <<ErrLine("Error: Unsupported image format.")>>)
             ELSE [an EXCEPT !.pc = "load_config", !.passed = TRUE]
    /\ UNCHANGED others

\* main: api_key, config_model, config_temperature = load_config()
LoadConfig ==
    /\ an.pc = "load_config"
    /\ LET r == load_config(an.cfg)
       IN  an' = IF r.ok
                 THEN [an EXCEPT !.lc = r, !.err = an.err \o r.err, !.pc = "resolve"]
                 ELSE Die(an, r.err)
    /\ UNCHANGED others

\* main: the model and the temperature passed to analyze_image
Resolve ==
    /\ an.pc = "resolve"
    /\ an' = [an EXCEPT !.model = ResolveModel(an.cli_model, an.lc.model),
                        !.temperature =
                           Some(ResolveTemperature(an.cli_temperature, an.lc.temperature)),
                        !.pc = "encode"]
    /\ UNCHANGED others

\* analyze_image: base64_image = encode_image(image_path); the payload
EncodeImage ==
    /\ an.pc = "encode"
    /\ an' = IF ~an.imgReadable
             THEN Die(an, <<ErrLine("Error encoding image")>>)
             ELSE [an EXCEPT !.payload = BuildPayload(an.model, an.prompt,
                                                      b64encode(an.image_path.v),
                                                      an.temperature),
                             !.pc = "post"]
    /\ UNCHANGED others

\* analyze_image: requests.post raises a ConnectionError
PostFails ==
    /\ an.pc = "post"
    /\ an' = Die([an EXCEPT !.sent = TRUE, !.netReq = @ + 1,
                            !.resp = [kind |-> "ConnectionError", status |-> 0, body |-> ""]],
                 <<ErrLine("Error calling OpenRouter API")>>)
    /\ UNCHANGED others

\* analyze_image: requests.post returns a response; raise_for_status(),
\* response.json() and the extraction of the answer.  The JSONDecodeError of
\* response.json() is a RequestException (caught) or a plain ValueError
\* (a traceback), depending on the version of requests; a KeyError is never
\* caught
PostAnswered ==
    /\ an.pc = "post"
    /\ \E status \in Statuses, body \in Bodies, caught \in BOOLEAN :
         LET a == [an EXCEPT !.sent = TRUE, !.netReq = @ + 1,
                             !.resp = [kind |-> "response", status |-> status, body |-> body]]
         IN  an' = IF RaisesForStatus(status)
                   THEN Die(a, HTTPErrorLines(status, body))
                   ELSE IF Content(body).kind = "ok"
                   THEN [a EXCEPT !.pc = "print"]
                   ELSE IF Content(body).kind = "JSONDecodeError" /\ caught
                   THEN Die(a, <<ErrLine("Error calling OpenRouter API")>>)
                   ELSE Die(a, <<ErrLine("Traceback (most recent call last)")>>)
    /\ UNCHANGED others

\* main: print(result)
PrintResult ==
    /\ an.pc = "print"
    /\ an' = [an EXCEPT !.out = Append(an.out, Content(an.resp.body).text),
                        !.exit = 0, !.pc = "done"]
    /\ UNCHANGED others

\* one invocation with an image path, or none, and no list-models flag
InitAnalyze ==
    /\ now = 0
    /\ ticks = 0
    /\ cache = NoFile
    /\ inv = [p \in Procs |-> IdleInv]
    /\ runs = 0
    /\ \E path \in ImagePaths, prompt \in Prompts, m \in CliModels,
          t \in CliTemperatures, cfgExists \in BOOLEAN, cfg \in Configs,
          imgExists \in BOOLEAN, imgReadable \in BOOLEAN :
         an = Analyze(path, prompt, m, t, cfgExists, cfg, imgExists, imgReadable)

NextAnalyze ==
    \/ CheckImagePathArg
    \/ CheckConfigExists
    \/ CheckImageExists
    \/ CheckExtension
    \/ LoadConfig
    \/ Resolve
    \/ EncodeImage
    \/ PostFails
    \/ PostAnswered
    \/ PrintResult

SpecAnalyze == InitAnalyze /\ [][NextAnalyze]_vars


(***************************************************************************)
(* Properties of the analyze mode.                                         *)
(***************************************************************************)
\* the temperature a config file sets, when it sets one that parses
ConfiguredTemperature(cfg) ==
    IF ~cfg.section \/ ~cfg.temperature.some THEN NoFloat
    ELSE IF cfg.temperature.v = "0.9" THEN Some(9)
    ELSE IF cfg.temperature.v = "0" THEN Some(0)
    ELSE NoFloat

\* C3: the model and the temperature passed to analyze_image are the value
\* given on the command line whenever one is given (temperature 0.0 and the
\* empty model string included), otherwise the value of the config file when
\* present and parseable, otherwise the built-in default.
C3_CliOverridesConfig ==
    an.pc = "encode" =>
      /\ an.model = IF an.cli_model.some THEN an.cli_model.v
                    ELSE IF an.cfg.section /\ an.cfg.model.some THEN an.cfg.model.v
                    ELSE "google/gemini-2.5-flash"
      /\ an.temperature = IF an.cli_temperature.some THEN Some(an.cli_temperature.v)
                          ELSE IF ConfiguredTemperature(an.cfg).some
                          THEN ConfiguredTemperature(an.cfg)
                          ELSE Some(4)

\* a config file with no api_key in its [openrouter] section
LacksApiKey(cfg) == ~(cfg.section /\ cfg.api_key.some)

Says(a, tag) == \E i \in 1..Len(a.err) : a.err[i].tag = tag

\* C4: in analyze mode, with a config file that lacks api_key, the
\* configuration is never resolved, the process exits with status 1, and no
\* network request is made at any point.
C4_NoApiKeyNoNetwork ==
    (an.pc # "off" /\ an.cfgExists /\ LacksApiKey(an.cfg)) =>
      /\ an.netReq = 0
      /\ ~an.sent
      /\ an.pc \in {"args", "cfg", "img", "ext", "load_config", "done"}
      /\ an.pc = "done" => an.exit = 1 /\ an.out = << >>
      /\ (an.pc = "done" /\ an.passed /\ ~an.cfg.malformed)
           => Says(an, "Error: Missing 'api_key'")

\* every precondition held and load_config exited on the missing api_key
C4_Witness ==
    /\ an.pc = "done"
    /\ an.passed
    /\ an.cfg.section
    /\ ~an.cfg.api_key.some
    /\ an.cfg.model.some
    /\ Says(an, "Error: Missing 'api_key'")
    /\ an.exit = 1
    /\ an.netReq = 0

\* the paths whose extension is jpg, jpeg or png in any case
PathsWithImageExtension ==
    { <<"p", ".", "p", "n", "g">>, <<"p", ".", "P", "N", "G">>,
      <<"a", ".", "j", "p", "g">>, <<"a", ".", "J", "p", "E", "g">> }

\* the first precondition of the analyze mode that fails, in the order of
\* the claim
FirstFailed(a) ==
    IF ~a.image_path.some \/ a.image_path.v = << >> THEN "argument"
    ELSE IF ~a.cfgExists THEN "config"
    ELSE IF ~a.imgExists THEN "image"
    ELSE IF a.image_path.v \notin PathsWithImageExtension THEN "extension"
    ELSE "none"

Diagnostic(f) ==
    CASE f = "argument" -> "Error: Image path is required for analysis."
      [] f = "config" -> "Error: Config file not found"
      [] f = "image" -> "Error: Image file not found"
      [] f = "extension" -> "Error: Unsupported image format."
      [] OTHER -> ""

\* C5: the preconditions of the analyze mode are checked in the order image
\* path given, config file exists, image exists, extension jpg/jpeg/png in
\* any case; the first that fails ends the process with a non-zero status,
\* nothing on standard output and no network request.
C5_PreconditionsInOrder ==
    an.pc # "off" =>
      IF FirstFailed(an) = "none"
      THEN an.pc \notin {"args", "cfg", "img", "ext"} => an.passed
      ELSE /\ ~an.passed
           /\ an.netReq = 0
           /\ an.out = << >>
           /\ an.pc \in {"args", "cfg", "img", "ext", "done"}
           /\ an.pc = "done"
                => /\ an.exit = 1
                   /\ an.err[1].tag = Diagnostic(FirstFailed(an))

\* image.gif, present on disk and with a config file, is rejected
C5_Witness ==
    /\ an.pc = "done"
    /\ an.image_path = Some(<<"i", ".", "g", "i", "f">>)
    /\ an.cfgExists
    /\ an.imgExists
    /\ an.exit = 1
    /\ an.err = <<ErrLine("Error: Unsupported image format.")>>
    /\ an.out = << >>
    /\ an.netReq = 0

\* the body holds one user message of a text part and then an image part
OneMessageTextThenImage(a) ==
    /\ Len(a.payload.messages) = 1
    /\ a.payload.messages[1].role = "user"
    /\ Len(a.payload.messages[1].content) = 2
    /\ a.payload.messages[1].content[1].type = "text"
    /\ a.payload.messages[1].content[1].text = a.prompt
    /\ a.payload.messages[1].content[2].type = "image_url"
    /\ a.payload.messages[1].content[2].url.data = [b64 |-> a.image_path.v]

\* neither the command line nor the config file sets a temperature
NoTemperatureConfigured(a) ==
    ~a.cli_temperature.some /\ ~(a.cfg.section /\ a.cfg.temperature.some)

\* C6 as claimed: the request body holds exactly one message with the parts
\* [text, image_url], and omits the temperature field when no temperature is
\* configured.
C6_OmitsTemperatureWhenNoneConfigured ==
    an.sent =>
      /\ OneMessageTextThenImage(an)
      /\ NoTemperatureConfigured(an) => "temperature" \notin DOMAIN an.payload

\* C6 as amended: the request body holds exactly one message with the parts
\* [text, image_url]; it carries the temperature analyze_image was given, and
\* main always gives one: with no temperature configured, the built-in
\* default 0.4.
C6_DefaultTemperatureIsSent ==
    an.sent =>
      /\ OneMessageTextThenImage(an)
      /\ "temperature" \in DOMAIN an.payload <=> an.temperature.some
      /\ an.temperature.some
      /\ an.payload.temperature = an.temperature.v
      /\ NoTemperatureConfigured(an) => an.payload.temperature = 4

\* a request sent with no temperature configured carries 0.4
C6_Witness ==
    /\ an.sent
    /\ NoTemperatureConfigured(an)
    /\ ~an.cfg.model.some
    /\ an.prompt = "What is this?"
    /\ Len(an.payload.messages) = 1
    /\ an.payload.temperature = 4

\* C7: when the endpoint answers with a non-2xx status, analyze_image writes
\* the status code and the raw response body to the error stream, then exits
\* with status 1, and writes nothing to standard output.
C7_StatusAndBodyOnStderr ==
    (an.pc = "done" /\ an.resp.kind = "response"
       /\ ~(200 <= an.resp.status /\ an.resp.status <= 299)) =>
      /\ \E i \in 1..Len(an.err) : an.err[i].status = an.resp.status
      /\ \E i \in 1..Len(an.err) : an.err[i].body = an.resp.body
      /\ an.exit = 1
      /\ an.out = << >>

====
